---- MODULE Spec2Model ----
(***************************************************************************)
(* Staged fine-tuning controllers of the Knowledge-Distillation repository *)
(*   teacher: distiller/teacher_train.py  training() and its train()       *)
(*   student: train.py                    train_kd() and its train()       *)
(*                                                                         *)
(* Abstractions.  The parameter tensors of the head and of the backbone    *)
(* are each one value of ParamValues; an optimizer step replaces the value *)
(* of every parameter group it covers that has a gradient by an arbitrary  *)
(* value.  An accuracy is kept as its numerator (the number of correct     *)
(* predictions): the denominator dataset_sizes[phase] is fixed during an   *)
(* invocation, so comparing numerators is comparing accuracies.  Learning  *)
(* rates are integers in units of 1e-8.  The forward pass is a collaborator *)
(* whose number of correct predictions on a batch is arbitrary; the loss   *)
(* value is only printed and is left out.                                  *)
(***************************************************************************)
EXTENDS Integers, Sequences, FiniteSets, TLC

\* ---- bounds of the model
MaxEpochs == 2         \* epoch counts of a stage range over 0..MaxEpochs
MaxParam == 1          \* a parameter group's value ranges over 0..MaxParam
MaxBatch == 1          \* examples per batch in Init's loaders
SchedEpochs == 4       \* epoch count of the scheduler scenario (SchedSpec)
SchedBatch == 3        \* examples of the train batch in the scheduler scenario

ParamValues == 0..MaxParam
Groups == {"head", "backbone"}

VARIABLES
  ctl,              \* "teacher" (training) or "student" (train_kd)
  epochs_freeze,    \* teacher: epochs_freeze;   student: epochs
  epochs_unfreeze,  \* teacher: epochs_unfreeze; student: epochs
  path_given,       \* path_save_weight is not None
  weights_dir,      \* the directory Weights exists
  file,             \* <<>> or <<state dict>>: the file at path_save_weight
  loaders,          \* [train, val]: each a sequence of batch sizes
  model,            \* [head, backbone]: the live parameter values
  requires_grad,    \* [head, backbone]: trainability flags
  grad,             \* the groups that hold an accumulated gradient
  training_mode,    \* Module.training (train() / eval())
  optimizer,        \* [params: set of groups, lr]
  scheduler,        \* ReduceLROnPlateau state
  best_model,       \* best_teacher / best_student: [kind, params]
  best_acc,
  pc, stage, epoch, phase, batch, running_corrects,
  raised_at,        \* the statement that raised, "" if none
  returned,         \* <<>> or <<the value the controller returned>>
  \* history variables: what has been observed, recorded apart from the code's own
  \* bookkeeping
  seenBest,         \* [acc, params]: the highest validation accuracy of the
                    \* invocation so far, the parameters of the phases that had it
  callMax,          \* max of the incoming best and this runner call's accuracies
  records,          \* validate phases of this runner call that exceeded callMax
  saveCalls,        \* torch.save calls made by this runner call
  phaseStartModel,  \* the parameters when the current phase began
  lastMetric,       \* the last metric given to scheduler.step by this runner call
  strictlyInc       \* those metrics have been strictly increasing so far

inputVars == <<ctl, epochs_freeze, epochs_unfreeze, path_given, loaders>>
fsVars    == <<weights_dir, file>>
modelVars == <<model, requires_grad, grad, training_mode>>
optVars   == <<optimizer, scheduler>>
bestVars  == <<best_model, best_acc>>
loopVars  == <<stage, epoch, phase, batch, running_corrects>>
valObs    == <<seenBest, callMax, records, saveCalls>>
metricObs == <<lastMetric, strictlyInc>>
histVars  == <<valObs, phaseStartModel, metricObs>>
vars == <<inputVars, fsVars, modelVars, optVars, bestVars, loopVars, histVars,
          pc, raised_at, returned>>

\* ---- learning-rate constants, in units of 1e-8
LrStage1 == 100000
LrStage2 == 10000
PatienceStage1 == 3
PatienceStage2 == 2

\* ---- torch.optim.lr_scheduler.ReduceLROnPlateau, as the controllers configure it
\* (threshold 1e-4 relative, cooldown 0, min_lr 0, eps 1e-8: the library defaults)
NewScheduler(mode, factor10, patience) ==
  [mode |-> mode, factor |-> factor10, patience |-> patience,
   has_best |-> FALSE, best |-> 0, num_bad_epochs |-> 0]

\* factor as tenths: the teacher halves the rate, the student divides it by ten
Factor10(c) == IF c = "teacher" THEN 5 ELSE 1

\* is_better: best starts at -inf (max) or +inf (min), which any metric beats
IsBetter(sch, a) ==
  IF ~sch.has_best THEN TRUE
  ELSE IF sch.mode = "max" THEN 10000 * a > 10001 * sch.best
  ELSE 10000 * a < 9999 * sch.best

\* scheduler.step(metric): the scheduler and the optimizer it drives, afterwards
SchedulerStep(sch, opt, metric) ==
  LET better == IsBetter(sch, metric)
      nbad   == IF better THEN 0 ELSE sch.num_bad_epochs + 1
      reduce == nbad > sch.patience
      new_lr == (opt.lr * sch.factor) \div 10
  IN [scheduler |-> [sch EXCEPT !.has_best = TRUE,
                                !.best = IF better THEN metric ELSE sch.best,
                                !.num_bad_epochs = IF reduce THEN 0 ELSE nbad],
      optimizer |-> [opt EXCEPT !.lr = IF reduce /\ opt.lr - new_lr > 1
                                       THEN new_lr ELSE opt.lr]]

\* 100. * running_corrects / dataset_sizes['train'], numerator over the train size
Metric(corrects) == 100 * corrects

\* ---- snapshots
\* teacher: copy.deepcopy(teacher), a module; student: deepcopy(state_dict()), a dict
Snapshot(c, m) ==
  [kind |-> IF c = "teacher" THEN "module" ELSE "state_dict", params |-> m]

\* Module.load_state_dict accepts a mapping and raises on anything else
LoadStateDictOk(arg) == arg.kind = "state_dict"

\* x.state_dict() exists on a module; on a dict it raises AttributeError
HasStateDict(x) == x.kind = "module"

\* torch.save(obj, path_save_weight) succeeds when the path's directory exists
PathDirExists == path_given \/ weights_dir

\* the guard of the makedirs call: teacher `not osp.isdir`, student `os.path.isdir`
MakedirsGuard(c, exists) == IF c = "teacher" THEN ~exists ELSE exists

\* a slip: back-propagation and the optimizer step left on in every phase
GradEnabledAlways(ph) == TRUE

\* phase == 'train': set_grad_enabled, loss.backward(), optimizer.step()
GradEnabled(ph) == ph = "train"

\* a slip: the checkpoint taken at every validate phase
ImprovedAlways(ph, epoch_acc, best) == ph = "val"

\* a slip: >= for >
ImprovedOrEqual(ph, epoch_acc, best) == ph = "val" /\ epoch_acc >= best

\* phase == 'val' and epoch_acc > best_acc
Improved(ph, epoch_acc, best) == ph = "val" /\ epoch_acc > best

Epochs(st) == IF st = 1 THEN epochs_freeze ELSE epochs_unfreeze

\* lastMetric before the first scheduler.step of a runner call
NoMetric == 0 - 1

\* ---- initial states: the controller is entered with the caller's arguments
InitCommon ==
  /\ ctl \in {"teacher", "student"}
  /\ path_given \in BOOLEAN
  /\ weights_dir \in BOOLEAN
  /\ file = <<>>
  /\ model = [g \in Groups |-> 0]
  /\ \E rb \in BOOLEAN : requires_grad = [head |-> TRUE, backbone |-> rb]
  /\ grad = {}
  /\ training_mode = TRUE
  /\ optimizer = [params |-> {}, lr |-> 0]
  /\ scheduler = NewScheduler("max", 0, 0)
  /\ best_model = [kind |-> "unbound", params |-> model]
  /\ best_acc = 0
  /\ pc = "path" /\ stage = 0 /\ epoch = 0 /\ phase = "train" /\ batch = 0
  /\ running_corrects = 0
  /\ raised_at = "" /\ returned = <<>>
  /\ seenBest = [acc |-> 0, params |-> {}]
  /\ callMax = 0 /\ records = 0 /\ saveCalls = 0
  /\ phaseStartModel = model
  /\ lastMetric = NoMetric /\ strictlyInc = TRUE

\* the train loader yields one batch of one example, the validate loader two
\* batches of MaxBatch examples: validation accuracy has 2 * MaxBatch + 1 levels
Init ==
  /\ loaders = [train |-> <<1>>, val |-> <<MaxBatch, MaxBatch>>]
  /\ InitCommon
  /\ epochs_freeze \in 0..MaxEpochs
  /\ epochs_unfreeze \in 0..MaxEpochs
  /\ ctl = "student" => epochs_unfreeze = epochs_freeze

\* ---- training / train_kd, first statements: the default checkpoint path
ResolvePath ==
  /\ pc = "path"
  /\ IF path_given
     THEN /\ pc' = "setup"
          /\ UNCHANGED <<weights_dir, raised_at>>
     ELSE IF MakedirsGuard(ctl, weights_dir)
          THEN IF weights_dir
               THEN \* os.makedirs on an existing directory: FileExistsError
                    /\ pc' = "raised" /\ raised_at' = "makedirs"
                    /\ UNCHANGED weights_dir
               ELSE /\ weights_dir' = TRUE
                    /\ pc' = "setup"
                    /\ UNCHANGED raised_at
          ELSE /\ pc' = "setup"
               /\ UNCHANGED <<weights_dir, raised_at>>
  /\ UNCHANGED <<inputVars, file, modelVars, optVars, bestVars, loopVars,
                 histVars, returned>>

\* ---- optimizer and scheduler of stage 1, the seed best-state, the call of train
Setup ==
  /\ pc = "setup"
  /\ optimizer' = [params |-> {"head"}, lr |-> LrStage1]
  /\ scheduler' = NewScheduler("max", Factor10(ctl), PatienceStage1)
  /\ best_model' = Snapshot(ctl, model)
  /\ best_acc' = 0
  /\ stage' = 1 /\ epoch' = 0 /\ phase' = "train" /\ pc' = "loop"
  /\ callMax' = 0 /\ records' = 0 /\ saveCalls' = 0
  /\ lastMetric' = NoMetric /\ strictlyInc' = TRUE
  /\ UNCHANGED <<inputVars, fsVars, modelVars, batch, running_corrects, seenBest,
                 phaseStartModel, raised_at, returned>>

\* ---- train(): top of `for phase`: model.train() / model.eval(), running sums reset
BeginPhase ==
  /\ pc = "loop" /\ epoch < Epochs(stage)
  /\ training_mode' = (phase = "train")
  /\ running_corrects' = 0
  /\ batch' = 1
  /\ pc' = IF Len(loaders[phase]) = 0 THEN "phase_end" ELSE "batch"
  /\ phaseStartModel' = model
  /\ UNCHANGED <<inputVars, fsVars, model, requires_grad, grad, optVars, bestVars,
                 stage, epoch, phase, valObs, metricObs, raised_at, returned>>

\* ---- train(): one batch.  V: the values an optimizer step may produce;
\* C[phase]: the correct-prediction counts the forward pass may produce
Batch(V, C) ==
  /\ pc = "batch"
  /\ LET size    == loaders[phase][batch]
         zeroed  == grad \ optimizer.params
         backed  == IF GradEnabled(phase)
                    THEN zeroed \cup {g \in Groups : requires_grad[g]}
                    ELSE zeroed
         stepped == IF GradEnabled(phase) THEN optimizer.params \cap backed ELSE {}
     IN \E c \in {n \in 0..size : n \in C[phase]} :
        \E m \in [Groups -> ParamValues] :
          /\ \A g \in Groups : IF g \in stepped THEN m[g] \in V ELSE m[g] = model[g]
          /\ model' = m
          /\ grad' = backed
          /\ running_corrects' = running_corrects + c
  /\ IF batch = Len(loaders[phase])
     THEN pc' = "phase_end" /\ UNCHANGED batch
     ELSE batch' = batch + 1 /\ UNCHANGED pc
  /\ UNCHANGED <<inputVars, fsVars, requires_grad, training_mode, optVars, bestVars,
                 stage, epoch, phase, histVars, raised_at, returned>>

\* ---- train(): end of the train phase: scheduler.step(100 * accuracy)
EndTrainPhase ==
  /\ pc = "phase_end" /\ phase = "train"
  /\ LET r == SchedulerStep(scheduler, optimizer, Metric(running_corrects))
     IN /\ scheduler' = r.scheduler
        /\ optimizer' = r.optimizer
  /\ lastMetric' = Metric(running_corrects)
  /\ strictlyInc' = (strictlyInc /\ (lastMetric = NoMetric
                                      \/ Metric(running_corrects) > lastMetric))
  /\ phase' = "val" /\ pc' = "loop"
  /\ UNCHANGED <<inputVars, fsVars, modelVars, bestVars, stage, epoch, batch,
                 running_corrects, valObs, phaseStartModel, raised_at, returned>>

\* ---- train(): end of the validate phase: checkpoint on improvement
EndValPhase ==
  /\ pc = "phase_end" /\ phase = "val"
  /\ seenBest' = IF running_corrects > seenBest.acc
                  THEN [acc |-> running_corrects, params |-> {model}]
                  ELSE IF running_corrects = seenBest.acc
                  THEN [seenBest EXCEPT !.params = @ \cup {model}]
                  ELSE seenBest
  /\ callMax' = IF running_corrects > callMax THEN running_corrects ELSE callMax
  /\ records' = IF running_corrects > callMax THEN records + 1 ELSE records
  /\ IF Improved(phase, running_corrects, best_acc)
     THEN /\ best_acc' = running_corrects
          /\ best_model' = Snapshot(ctl, model)
          /\ saveCalls' = saveCalls + 1
          /\ IF PathDirExists
             THEN /\ file' = <<model>>
                  /\ pc' = "loop" /\ epoch' = epoch + 1 /\ phase' = "train"
                  /\ UNCHANGED raised_at
             ELSE \* torch.save into a directory that does not exist
                  /\ pc' = "raised" /\ raised_at' = "save"
                  /\ UNCHANGED <<file, epoch, phase>>
     ELSE /\ pc' = "loop" /\ epoch' = epoch + 1 /\ phase' = "train"
          /\ UNCHANGED <<bestVars, saveCalls, file, raised_at>>
  /\ UNCHANGED <<inputVars, weights_dir, modelVars, optVars, stage, batch,
                 running_corrects, phaseStartModel, metricObs, returned>>

\* ---- train(): `return best, best_acc` once range(epochs) is exhausted
RunnerReturn ==
  /\ pc = "loop" /\ epoch = Epochs(stage)
  /\ pc' = IF stage = 1 THEN "reload" ELSE "final"
  /\ UNCHANGED <<inputVars, fsVars, modelVars, optVars, bestVars, loopVars,
                 histVars, raised_at, returned>>

\* ---- model.load_state_dict(best) after stage 1
ReloadBest ==
  /\ pc = "reload"
  /\ IF LoadStateDictOk(best_model)
     THEN /\ model' = best_model.params
          /\ pc' = "unfreeze"
          /\ UNCHANGED raised_at
     ELSE /\ pc' = "raised" /\ raised_at' = "load_state_dict"
          /\ UNCHANGED model
  /\ UNCHANGED <<inputVars, fsVars, requires_grad, grad, training_mode, optVars,
                 bestVars, loopVars, histVars, returned>>

\* ---- unfreeze, optimizer and scheduler of stage 2, the second call of train
Unfreeze ==
  /\ pc = "unfreeze"
  /\ requires_grad' = [g \in Groups |-> TRUE]
  /\ optimizer' = [params |-> Groups, lr |-> LrStage2]
  /\ scheduler' = NewScheduler("min", Factor10(ctl), PatienceStage2)
  /\ stage' = 2 /\ epoch' = 0 /\ phase' = "train" /\ pc' = "loop"
  /\ callMax' = best_acc /\ records' = 0 /\ saveCalls' = 0
  /\ lastMetric' = NoMetric /\ strictlyInc' = TRUE
  /\ UNCHANGED <<inputVars, fsVars, model, grad, training_mode, bestVars, batch,
                 running_corrects, seenBest, phaseStartModel, raised_at, returned>>

\* ---- torch.save(best.state_dict(), path_save_weight); return best
FinalSave ==
  /\ pc = "final"
  /\ IF ~HasStateDict(best_model)
     THEN /\ pc' = "raised" /\ raised_at' = "state_dict"
          /\ UNCHANGED <<file, returned>>
     ELSE IF PathDirExists
     THEN /\ file' = <<best_model.params>>
          /\ returned' = <<best_model>>
          /\ pc' = "done"
          /\ UNCHANGED raised_at
     ELSE /\ pc' = "raised" /\ raised_at' = "save"
          /\ UNCHANGED <<file, returned>>
  /\ UNCHANGED <<inputVars, weights_dir, modelVars, optVars, bestVars, loopVars,
                 histVars>>

AnyCorrects == [ph \in {"train", "val"} |-> Nat]

Next ==
  \/ ResolvePath
  \/ Setup
  \/ BeginPhase
  \/ Batch(ParamValues, AnyCorrects)
  \/ EndTrainPhase
  \/ EndValPhase
  \/ RunnerReturn
  \/ ReloadBest
  \/ Unfreeze
  \/ FinalSave

Spec == Init /\ [][Next]_vars

\* ---- the scheduler scenario: SchedEpochs epochs per stage, a train loader whose
\* accuracy has SchedBatch + 1 levels, an explicit checkpoint path
SchedInit ==
  /\ loaders = [train |-> <<SchedBatch>>, val |-> <<1>>]
  /\ InitCommon
  /\ path_given
  /\ epochs_freeze = SchedEpochs
  /\ epochs_unfreeze = SchedEpochs

SchedSpec == SchedInit /\ [][Next]_vars

InRunner == pc \in {"loop", "batch", "phase_end"}

\* the model state the caller handed in (Init)
InitialModel == [g \in Groups |-> 0]

\* at pc = "loop" with phase = "train" and epoch > 0 a validate phase has just
\* ended and running_corrects still holds its count
ValidateJustEnded == pc = "loop" /\ phase = "train" /\ epoch > 0

(***************************************************************************)
(* C1: once a checkpoint has been written, the file holds the parameters   *)
(* of a validate phase whose accuracy is the highest validation accuracy   *)
(* observed so far in the invocation, stage 1 and stage 2 together.        *)
(***************************************************************************)
C1_FileHoldsBest ==
  file # <<>> => (seenBest.acc > 0 /\ file[1] \in seenBest.params)

\* a stage-2 epoch worse than stage 1's best has ended; the file is still stage 1's
C1_Witness ==
  /\ ValidateJustEnded /\ stage = 2
  /\ running_corrects < best_acc
  /\ saveCalls = 0
  /\ file # <<>> /\ file[1] # model

(***************************************************************************)
(* C2: the final step persists the best checkpoint and returns it: the     *)
(* step taken at the final statement ends the controller with the file and *)
(* the returned value holding the parameters of the best validate phase    *)
(* (the initial parameters if no accuracy exceeded 0).                     *)
(***************************************************************************)
C2_FinalPersistsAndReturns ==
  [][pc = "final" =>
       /\ pc' = "done"
       /\ file' # <<>> /\ returned' # <<>>
       /\ returned'[1].params = file'[1]
       /\ IF seenBest.acc > 0 THEN file'[1] \in seenBest.params
                              ELSE file'[1] = InitialModel]_vars

(***************************************************************************)
(* C3: after stage 1's runner returns with a last epoch that is not its    *)
(* best, the reload statement restores the live model to stage 1's best    *)
(* checkpoint and control goes on to stage 2.                              *)
(***************************************************************************)
C3_Stage2StartsFromBest ==
  [][(pc = "reload" /\ model # best_model.params) =>
       (pc' = "unfreeze" /\ model' = best_model.params)]_vars

(***************************************************************************)
(* C4: a controller invocation in which storage raises no error never      *)
(* stops in an error state: it goes on until done.                         *)
(***************************************************************************)
C4_RunsToCompletion ==
  pc = "raised" => raised_at \in {"makedirs", "save"}

(***************************************************************************)
(* C5: best accuracy never decreases and is 0 when the controller sets it  *)
(* up; the best-state changes only at the end of a validate phase whose    *)
(* accuracy strictly exceeds the current best, and then takes that         *)
(* accuracy and the live parameters.                                       *)
(***************************************************************************)
C5_BestStateChange ==
  [][/\ best_acc' >= best_acc
     /\ pc = "setup" => best_acc' = 0
     /\ (pc # "setup" /\ bestVars' # bestVars) =>
          /\ pc = "phase_end" /\ phase = "val"
          /\ running_corrects > best_acc
          /\ best_acc' = running_corrects
          /\ best_model'.params = model]_vars

\* a stage-2 epoch that only equals stage 1's best has ended with other parameters;
\* the best-state is still stage 1's
C5_Witness ==
  /\ ValidateJustEnded /\ stage = 2
  /\ running_corrects = best_acc /\ best_acc > 0
  /\ best_model.params # model
  /\ saveCalls = 0

(***************************************************************************)
(* C6: at every point of a runner call the number of checkpoint writes it  *)
(* has made equals the number of its finished epochs whose validation      *)
(* accuracy strictly exceeded all earlier ones and the incoming best: the  *)
(* write of an improving epoch is made in its validate phase.              *)
(***************************************************************************)
C6_WritesEqualImprovements ==
  saveCalls = records

\* two epochs of one runner call done: the first improved, the second did not
C6_Witness ==
  /\ ValidateJustEnded /\ epoch = 2
  /\ saveCalls = 1 /\ records = 1
  /\ running_corrects < best_acc

(***************************************************************************)
(* C7: the validate phase is read-only: a validate batch changes no        *)
(* parameter value, accumulates no gradient and leaves the optimizer and   *)
(* the scheduler alone, and the parameters at the end of a validate phase  *)
(* are those at its start.                                                 *)
(***************************************************************************)
C7_ValidateReadOnly ==
  /\ []((phase = "val" /\ pc \in {"batch", "phase_end"}) =>
          (model = phaseStartModel /\ ~training_mode))
  /\ [][(pc = "batch" /\ phase = "val") =>
          (model' = model /\ grad' \subseteq grad /\ optVars' = optVars)]_vars

\* the end of a stage-2 validate phase, after training has moved the parameters
C7_Witness ==
  /\ pc = "phase_end" /\ phase = "val" /\ stage = 2
  /\ model.head # InitialModel.head /\ model.backbone # InitialModel.backbone
  /\ running_corrects > 0

(***************************************************************************)
(* C8: throughout stage 1 the trainability flag of the backbone is false,  *)
(* whatever flags the caller's model arrived with.                         *)
(***************************************************************************)
C8_BackboneFrozenInStage1 ==
  (stage = 1 /\ InRunner) => ~requires_grad.backbone

(***************************************************************************)
(* C9: with no checkpoint path given, once the path is resolved the        *)
(* Weights directory exists and resolving it raised no error, whether the  *)
(* directory existed before or not.                                        *)
(***************************************************************************)
C9_WeightsDirEnsured ==
  (~path_given /\ pc # "path") => (weights_dir /\ raised_at # "makedirs")

(***************************************************************************)
(* C10: in either stage, while the accuracies given to the scheduler have  *)
(* been strictly increasing the learning rate is the one the stage's       *)
(* optimizer was built with.                                               *)
(***************************************************************************)
C10_NoCutWhileIncreasing ==
  (InRunner /\ strictlyInc) =>
     optimizer.lr = IF stage = 1 THEN LrStage1 ELSE LrStage2
====
